---- MODULE Spec2Model ----
(***************************************************************************)
(* A model of postgres_copy_to.cpp: the COPY ... FROM STDIN session driver *)
(* (BeginCopyTo, CopyData, CopyChunk, FinishCopyTo) and the casts of       *)
(* nested values to PostgreSQL text literals.                              *)
(*                                                                         *)
(* A string is a sequence of character codes (the values of C chars).      *)
(***************************************************************************)
EXTENDS Integers, Sequences, FiniteSets

\* ------------------------------------------------------------------- state
VARIABLES
    phase,          \* where the caller is in the session: IDLE, ACTIVE, CLOSED, FAILED
    state,          \* the PostgresCopyState
    varchar_chunk,  \* the casted chunk the caller keeps across CopyChunk calls
    sent,           \* the copy data the connection accepted, in order
    given,          \* the chunks of the CopyChunk calls that returned, in order
    call,           \* the last call of a driver method: what it did and how it ended
    castPc,         \* a cast on its own: "input" before the cast, "done" after
    castIn,         \* a cast on its own: the input
    castOut         \* a cast on its own: the output

driverVars == <<phase, state, varchar_chunk, sent, given, call>>
castVars == <<castPc, castIn, castOut>>
vars == <<phase, state, varchar_chunk, sent, given, call, castPc, castIn, castOut>>

\* ------------------------------------------------------------------ bounds
MaxTextLen == 3
MaxListLen == 2
MaxVecRows == 2
MaxAttempts == 2
MaxRows == 2
MaxChunks == 2

\* ------------------------------------------------------- character codes
CH_NUL == 0
CH_BS == 8
CH_TAB == 9
CH_LF == 10
CH_VT == 11
CH_FF == 12
CH_CR == 13
CH_SPACE == 32
CH_DOT == 46
CH_DQUOTE == 34
CH_LPAREN == 40
CH_RPAREN == 41
CH_COMMA == 44
CH_0 == 48
CH_A == 65
CH_L == 76
CH_N == 78
CH_U == 85
CH_BACKSLASH == 92
CH_x == 120
CH_LBRACE == 123
CH_RBRACE == 125

\* isspace() in the "C" locale
isspace(c) == c \in {CH_SPACE, CH_TAB, CH_LF, CH_VT, CH_FF, CH_CR}

Contains(s, chars) == \E i \in 1..Len(s) : s[i] \in chars

\* ------------------------------------------------- quoting and escaping
\* bool NeedsQuotes(const string &to_quote, idx_t size)
RECURSIVE NeedsQuotesLoop(_, _, _)
NeedsQuotesLoop(to_quote, size, c) ==
    IF c >= size THEN FALSE
    ELSE IF to_quote[c + 1] \in {CH_DQUOTE, CH_BACKSLASH, CH_LBRACE, CH_RBRACE,
                                 CH_LPAREN, CH_RPAREN, CH_COMMA}
         THEN TRUE
         ELSE NeedsQuotesLoop(to_quote, size, c + 1)

NeedsQuotes(to_quote, size) ==
    IF size <= 0 THEN TRUE
    ELSE IF isspace(to_quote[1]) THEN TRUE
    ELSE IF isspace(to_quote[size]) THEN TRUE
    ELSE NeedsQuotesLoop(to_quote, size, 0)

\* the loop of EscapeQuotes (lines 144-151)
RECURSIVE EscapeQuotesLoop(_, _, _, _)
EscapeQuotesLoop(to_escape, result, size, c) ==
    IF c >= size THEN result
    ELSE LET ch == to_escape[c + 1]
             r1 == IF ch \in {CH_DQUOTE, CH_BACKSLASH}
                   THEN Append(result, CH_BACKSLASH) ELSE result
         IN EscapeQuotesLoop(to_escape, Append(r1, ch), size, c + 1)

RECURSIVE EscapeQuotesNoBackslashLoop(_, _, _, _)
EscapeQuotesNoBackslashLoop(to_escape, result, size, c) ==
    IF c >= size THEN result
    ELSE LET ch == to_escape[c + 1]
             r1 == IF ch \in {CH_DQUOTE}
                   THEN Append(result, CH_BACKSLASH) ELSE result
         IN EscapeQuotesNoBackslashLoop(to_escape, Append(r1, ch), size, c + 1)

\* EscapeQuotes without the case '\\' label
EscapeQuotesNoBackslash(to_escape, result, size) ==
    EscapeQuotesNoBackslashLoop(to_escape, result, size, 0)

\* void EscapeQuotes(const string &to_escape, string &result, idx_t size):
\* the value is result after the call.
EscapeQuotes(to_escape, result, size) ==
    EscapeQuotesLoop(to_escape, result, size, 0)

\* void QuoteAndEscapeIfNeeded(const string &to_quote, string &result, idx_t size)
QuoteAndEscapeIfNeeded(to_quote, result, size) ==
    IF ~NeedsQuotes(to_quote, size)
    THEN result \o to_quote
    ELSE Append(EscapeQuotes(to_quote, Append(result, CH_DQUOTE), size), CH_DQUOTE)

\* ---------------------------------------------------- values and vectors
\* A logical type is [id, children]; a value is [null, num, str, elems]; a
\* (flattened) vector is [type, data], data being one value per row.
VARCHAR == [id |-> "VARCHAR", children |-> <<>>]
INTEGER == [id |-> "INTEGER", children |-> <<>>]
BLOB == [id |-> "BLOB", children |-> <<>>]
LIST(child) == [id |-> "LIST", children |-> <<child>>]
STRUCT(children) == [id |-> "STRUCT", children |-> children]

NullValue == [null |-> TRUE, num |-> 0, str |-> <<>>, elems |-> <<>>]
StringValue(s) == [null |-> FALSE, num |-> 0, str |-> s, elems |-> <<>>]
IntegerValue(n) == [null |-> FALSE, num |-> n, str |-> <<>>, elems |-> <<>>]
NestedValue(es) == [null |-> FALSE, num |-> 0, str |-> <<>>, elems |-> es]

\* the text "NULL" of a null list element
NULL_TOKEN == <<CH_N, CH_U, CH_L, CH_L>>

\* VectorOperations::Cast to VARCHAR of the types the model carries: a
\* VARCHAR is copied, a non-negative INTEGER is written in decimal.
RECURSIVE DecimalText(_)
DecimalText(n) ==
    IF n < 10 THEN <<CH_0 + n>>
    ELSE Append(DecimalText(n \div 10), CH_0 + (n % 10))

VectorOperationsCast(input, size) ==
    [r \in 1..size |->
        IF input.data[r].null THEN NullValue
        ELSE IF input.type.id = "INTEGER"
             THEN StringValue(DecimalText(input.data[r].num))
             ELSE StringValue(input.data[r].str)]

\* HEX_STRING[n]
HEX_STRING(n) == IF n < 10 THEN CH_0 + n ELSE CH_A + (n - 10)

\* void CastBlobToPostgres(context, input, result, size)
RECURSIVE BlobLoop(_, _, _)
BlobLoop(blob_data, blob_str, c) ==
    IF c >= Len(blob_data) THEN blob_str
    ELSE BlobLoop(blob_data,
                  blob_str \o <<HEX_STRING(blob_data[c + 1] \div 16),
                                HEX_STRING(blob_data[c + 1] % 16)>>,
                  c + 1)

CastBlobToPostgres(input, size) ==
    [r \in 1..size |->
        IF input.data[r].null THEN NullValue
        ELSE StringValue(BlobLoop(input.data[r].str, <<CH_BACKSLASH, CH_x>>, 0))]

\* ListVector::GetEntry / list_entry_t: the child buffer of a list vector
\* and each row's (offset, length) into it.
RECURSIVE ListChildData(_, _)
ListChildData(data, r) ==
    IF r > Len(data) THEN <<>>
    ELSE data[r].elems \o ListChildData(data, r + 1)

RECURSIVE ListOffset(_, _)
ListOffset(data, r) ==
    IF r <= 1 THEN 0 ELSE ListOffset(data, r - 1) + Len(data[r - 1].elems)

list_entries(input) ==
    [r \in 1..Len(input.data) |->
        [offset |-> ListOffset(input.data, r), length |-> Len(input.data[r].elems)]]

RECURSIVE CastToPostgresVarchar(_, _)
RECURSIVE CastListToPostgresArray(_, _)
RECURSIVE CastStructToPostgres(_, _)

\* the loop over list_idx of CastListToPostgresArray (lines 187-202)
RECURSIVE ListEntryLoop(_, _, _, _, _)
ListEntryLoop(child_varchar, list_entry, skip_quoting, result, list_idx) ==
    IF list_idx >= list_entry.length THEN result
    ELSE LET r1 == IF list_idx > 0 THEN Append(result, CH_COMMA) ELSE result
             child_idx == list_entry.offset + list_idx
             child == child_varchar[child_idx + 1]
             r2 == IF child.null THEN r1 \o NULL_TOKEN
                   ELSE IF skip_quoting THEN r1 \o child.str
                   ELSE QuoteAndEscapeIfNeeded(child.str, r1, Len(child.str))
         IN ListEntryLoop(child_varchar, list_entry, skip_quoting, r2, list_idx + 1)

\* void CastListToPostgresArray(context, input, varchar_vector, size)
CastListToPostgresArray(input, size) ==
    LET child_data == [type |-> input.type.children[1],
                       data |-> ListChildData(input.data, 1)]
        child_count == Len(child_data.data)
        skip_quoting == child_data.type.id = "LIST"
        child_varchar == CastToPostgresVarchar(child_data, child_count)
        entries == list_entries(input)
    IN [r \in 1..size |->
           IF input.data[r].null THEN NullValue
           ELSE StringValue(Append(
                    ListEntryLoop(child_varchar, entries[r], skip_quoting,
                                  <<CH_LBRACE>>, 0),
                    CH_RBRACE))]

\* StructVector::GetEntries: child vector c holds field c of every row
StructEntries(input, size) ==
    [c \in 1..Len(input.type.children) |->
        [type |-> input.type.children[c],
         data |-> [r \in 1..size |->
                      IF input.data[r].null THEN NullValue
                      ELSE input.data[r].elems[c]]]]

\* the loop over c with a null field written as the word NULL
RECURSIVE StructFieldLoopNullWord(_, _, _, _)
StructFieldLoopNullWord(child_varchar_vectors, r, result, c) ==
    IF c >= Len(child_varchar_vectors) THEN result
    ELSE LET r1 == IF c > 0 THEN Append(result, CH_COMMA) ELSE result
             child == child_varchar_vectors[c + 1][r]
             r2 == IF child.null THEN r1 \o NULL_TOKEN
                   ELSE QuoteAndEscapeIfNeeded(child.str, r1, Len(child.str))
         IN StructFieldLoopNullWord(child_varchar_vectors, r, r2, c + 1)

\* the loop over c of CastStructToPostgres (lines 227-237)
RECURSIVE StructFieldLoop(_, _, _, _)
StructFieldLoop(child_varchar_vectors, r, result, c) ==
    IF c >= Len(child_varchar_vectors) THEN result
    ELSE LET r1 == IF c > 0 THEN Append(result, CH_COMMA) ELSE result
             child == child_varchar_vectors[c + 1][r]
             r2 == IF child.null THEN r1 \o <<>>
                   ELSE QuoteAndEscapeIfNeeded(child.str, r1, Len(child.str))
         IN StructFieldLoop(child_varchar_vectors, r, r2, c + 1)

\* void CastStructToPostgres(context, input, varchar_vector, size)
CastStructToPostgres(input, size) ==
    LET child_vectors == StructEntries(input, size)
        child_varchar_vectors ==
            [c \in 1..Len(child_vectors) |-> CastToPostgresVarchar(child_vectors[c], size)]
    IN [r \in 1..size |->
           IF input.data[r].null THEN NullValue
           ELSE StringValue(Append(
                    StructFieldLoop(child_varchar_vectors, r, <<CH_LPAREN>>, 0),
                    CH_RPAREN))]

\* void CastToPostgresVarchar(context, input, result, size)
CastToPostgresVarchar(input, size) ==
    CASE input.type.id = "LIST" -> CastListToPostgresArray(input, size)
      [] input.type.id = "STRUCT" -> CastStructToPostgres(input, size)
      [] input.type.id = "BLOB" -> CastBlobToPostgres(input, size)
      [] OTHER -> VectorOperationsCast(input, size)

\* ------------------------------------------------------------ cast inputs
QuoteAlphabet ==
    {CH_DQUOTE, CH_BACKSLASH, CH_LBRACE, CH_RBRACE, CH_LPAREN, CH_RPAREN,
     CH_COMMA, CH_SPACE, CH_TAB, CH_x}

\* the strings that occur as leaves of nested values
LeafTexts == {<<>>, <<CH_x>>, <<CH_x, CH_COMMA>>, <<CH_DQUOTE>>, NULL_TOKEN}
LeafIntegers == {1, 12}
LeafBlobs == {<<>>, <<10, 255>>}

SeqsUpTo(S, n) == UNION {[1..k -> S] : k \in 0..n}

RECURSIVE ValuesOf(_)
RECURSIVE TupleValues(_, _)
\* the tuples whose c-th component is a value of the c-th type
TupleValues(types, c) ==
    IF c > Len(types) THEN {<<>>}
    ELSE {<<v>> \o rest : v \in ValuesOf(types[c]), rest \in TupleValues(types, c + 1)}

ValuesOf(type) ==
    {NullValue} \cup
    CASE type.id = "VARCHAR" -> {StringValue(s) : s \in LeafTexts}
      [] type.id = "INTEGER" -> {IntegerValue(n) : n \in LeafIntegers}
      [] type.id = "BLOB" -> {StringValue(s) : s \in LeafBlobs}
      [] type.id = "LIST" ->
            {NestedValue(es) : es \in SeqsUpTo(ValuesOf(type.children[1]), MaxListLen)}
      [] type.id = "STRUCT" -> {NestedValue(es) : es \in TupleValues(type.children, 1)}

NoVector == [type |-> VARCHAR, data |-> <<>>]
TextInput(t) == [kind |-> "text", text |-> t, vec |-> NoVector]
VectorInput(v) == [kind |-> "vector", text |-> <<>>, vec |-> v]

StructTypes ==
    {STRUCT(<<VARCHAR>>), STRUCT(<<VARCHAR, VARCHAR>>), STRUCT(<<INTEGER, VARCHAR>>),
     STRUCT(<<STRUCT(<<VARCHAR>>), INTEGER>>)}

ListTypes == {LIST(VARCHAR), LIST(INTEGER), LIST(BLOB), LIST(STRUCT(<<VARCHAR>>))}
NestedListTypes == {LIST(LIST(INTEGER))}

\* the inputs of a cast on its own: a text of at most n characters or a struct
\* vector of at most m rows
CastInputs(x, n, m) ==
    \/ \E k \in 0..n : \E t \in [1..k -> QuoteAlphabet] : x = TextInput(t)
    \/ \E type \in StructTypes : \E k \in 0..m : \E d \in [1..k -> ValuesOf(type)] :
          x = VectorInput([type |-> type, data |-> d])

\* a list vector of at most m rows (one row when the lists are nested)
ListInputs(x, m) ==
    \/ \E type \in ListTypes : \E k \in 0..m : \E d \in [1..k -> ValuesOf(type)] :
          x = VectorInput([type |-> type, data |-> d])
    \/ \E type \in NestedListTypes : \E k \in 0..1 : \E d \in [1..k -> ValuesOf(type)] :
          x = VectorInput([type |-> type, data |-> d])

\* ------------------------------------------------ the copy session driver
\* PostgresCopyState as constructed
NewCopyState ==
    [format |-> "AUTO", has_null_byte_replacement |-> FALSE, null_byte_replacement |-> <<>>]

\* the value of the setting pg_null_byte_replacement: found is what
\* TryGetCurrentSetting returns, null is replacement_value.IsNull()
NoSetting == [found |-> FALSE, null |-> TRUE, str |-> <<>>]
NullSetting == [found |-> TRUE, null |-> TRUE, str |-> <<>>]
StringSetting(s) == [found |-> TRUE, null |-> FALSE, str |-> s]
Settings ==
    {NoSetting, NullSetting, StringSetting(<<CH_BACKSLASH, CH_0>>),
     StringSetting(<<CH_NUL>>), StringSetting(<<CH_x, CH_NUL>>)}

\* Initialize with lines 22-23 moved above the loop of lines 17-21
InitializeAssignFirst(copy_state, setting) ==
    IF ~setting.found THEN [state |-> copy_state, threw |-> FALSE]
    ELSE IF setting.null THEN [state |-> copy_state, threw |-> FALSE]
    ELSE [state |-> [copy_state EXCEPT !.has_null_byte_replacement = TRUE,
                                       !.null_byte_replacement = setting.str],
          threw |-> Contains(setting.str, {CH_NUL})]

\* void PostgresCopyState::Initialize(ClientContext &context): the state
\* after the call and whether the call threw
Initialize(copy_state, setting) ==
    IF ~setting.found THEN [state |-> copy_state, threw |-> FALSE]
    ELSE IF setting.null THEN [state |-> copy_state, threw |-> FALSE]
    ELSE IF Contains(setting.str, {CH_NUL}) THEN [state |-> copy_state, threw |-> TRUE]
    ELSE [state |-> [copy_state EXCEPT !.has_null_byte_replacement = TRUE,
                                       !.null_byte_replacement = setting.str],
          threw |-> FALSE]

\* the calls of the connection library a method makes, in order
PQExecuteCall(query, status) ==
    [fn |-> "PQExecute", data |-> <<>>, query |-> query, code |-> 0, status |-> status]
PQputCopyDataCall(data, code) ==
    [fn |-> "PQputCopyData", data |-> data, query |-> "", code |-> code, status |-> ""]
PQputCopyEndCall(code) ==
    [fn |-> "PQputCopyEnd", data |-> <<>>, query |-> "", code |-> code, status |-> ""]
PQgetResultCall(status) ==
    [fn |-> "PQgetResult", data |-> <<>>, query |-> "", code |-> 0, status |-> status]

PutCopyDataCodes == {-1, 0, 1}
PutCopyEndCodes == {-1, 0, 1}
ResultStatuses == {"nullptr", "PGRES_COPY_IN", "PGRES_COMMAND_OK", "PGRES_FATAL_ERROR"}
\* what the successive PQputCopyData calls of one CopyData return, up to the
\* first code that is not 0: at most MaxAttempts calls are followed
PutCopyDataResults ==
    {r \in UNION {[1..k -> PutCopyDataCodes] : k \in 1..MaxAttempts} :
        /\ \A i \in 1..(Len(r) - 1) : r[i] = 0
        /\ r[Len(r)] # 0 \/ Len(r) = MaxAttempts}

\* CopyData without the do-while: a single attempt
RECURSIVE CopyDataLoopNoRetry(_, _, _, _, _)
CopyDataLoopNoRetry(buffer, size, results, i, trace) ==
    IF i > Len(results) THEN [trace |-> trace, outcome |-> "retrying"]
    ELSE LET result == results[i]
             t1 == Append(trace, PQputCopyDataCall(SubSeq(buffer, 1, size), result))
         IN IF result = -1 THEN [trace |-> t1, outcome |-> "threw"]
            ELSE [trace |-> t1, outcome |-> "returned"]

\* void PostgresConnection::CopyData(data_ptr_t buffer, idx_t size): the
\* PQputCopyData calls made and how the method ended; "retrying" is the loop
\* still running when the results listed are used up.
RECURSIVE CopyDataLoop(_, _, _, _, _)
CopyDataLoop(buffer, size, results, i, trace) ==
    IF i > Len(results) THEN [trace |-> trace, outcome |-> "retrying"]
    ELSE LET result == results[i]
             t1 == Append(trace, PQputCopyDataCall(SubSeq(buffer, 1, size), result))
         IN IF result = 0 THEN CopyDataLoop(buffer, size, results, i + 1, t1)
            ELSE IF result = -1 THEN [trace |-> t1, outcome |-> "threw"]
            ELSE [trace |-> t1, outcome |-> "returned"]

CopyData(buffer, size, results) == CopyDataLoop(buffer, size, results, 1, <<>>)

\* ---------------------------------------------------------- the writers
\* big-endian integers of the binary wire format
Int16BE(n) == LET m == n % 65536 IN <<m \div 256, m % 256>>
\* (a negative n is the complement of -(n + 1), byte by byte)
Int32BE(n) ==
    LET k == IF n >= 0 THEN n ELSE -(n + 1)
        b == <<k \div 16777216, (k \div 65536) % 256, (k \div 256) % 256, k % 256>>
    IN IF n >= 0 THEN b ELSE [i \in 1..4 |-> 255 - b[i]]

\* a call of a writer method: the method, and the column and row it is given
\* (BeginRow's column is the field count)
WriterOp(fn, col, row) == [fn |-> fn, col |-> col, row |-> row]

\* PostgresBinaryWriter: the bytes each method appends to the stream
BinaryHeader ==
    <<80, 71, 67, 79, 80, 89, 10, 255, 13, 10, 0>> \o Int32BE(0) \o Int32BE(0)
BinaryFooter == Int16BE(-1)
BinaryValue(type, v) ==
    IF v.null THEN Int32BE(-1)
    ELSE IF type.id = "INTEGER" THEN Int32BE(4) \o Int32BE(v.num)
    ELSE Int32BE(Len(v.str)) \o v.str
BinaryOpBytes(columns, op) ==
    CASE op.fn = "BeginRow" -> Int16BE(op.col)
      [] op.fn = "WriteValue" ->
            BinaryValue(columns[op.col + 1].type, columns[op.col + 1].data[op.row + 1])
      [] OTHER -> <<>>

\* PostgresTextWriter: the bytes each method appends to the stream
RECURSIVE ReplaceNullBytes(_, _, _)
ReplaceNullBytes(copy_state, str, i) ==
    IF i > Len(str) THEN <<>>
    ELSE (IF str[i] = CH_NUL /\ copy_state.has_null_byte_replacement
          THEN copy_state.null_byte_replacement ELSE <<str[i]>>)
         \o ReplaceNullBytes(copy_state, str, i + 1)
TextFooter == <<CH_BACKSLASH, CH_DOT, CH_LF>>
TextValue(copy_state, v) ==
    IF v.null THEN <<CH_BS>> ELSE ReplaceNullBytes(copy_state, v.str, 1)
TextOpBytes(copy_state, columns, op) ==
    CASE op.fn = "WriteSeparator" -> <<CH_TAB>>
      [] op.fn = "WriteValue" -> TextValue(copy_state, columns[op.col + 1][op.row + 1])
      [] op.fn = "FinishRow" -> <<CH_LF>>
      [] OTHER -> <<>>

\* writer.stream after the calls ops
RECURSIVE BinaryStream(_, _, _)
BinaryStream(columns, ops, i) ==
    IF i > Len(ops) THEN <<>>
    ELSE BinaryOpBytes(columns, ops[i]) \o BinaryStream(columns, ops, i + 1)
RECURSIVE TextStream(_, _, _, _)
TextStream(copy_state, columns, ops, i) ==
    IF i > Len(ops) THEN <<>>
    ELSE TextOpBytes(copy_state, columns, ops[i]) \o TextStream(copy_state, columns, ops, i + 1)

\* ------------------------------------------------------------ BeginCopyTo
\* the COPY command, as far as the session decides it: its format clause
\* (the identifiers are the caller's)
CopyQuery(format) == IF format = "BINARY" THEN "FROM STDIN BINARY)" ELSE "FROM STDIN TEXT (NULL '\\b'))"

\* a header in any format
RequiresHeaderAlways(format) == TRUE

\* line 63: binary copy requires a header
RequiresHeader(format) == format = "BINARY"

MethodResult(copy_state, trace, outcome, accepted) ==
    [state |-> copy_state, trace |-> trace, outcome |-> outcome, accepted |-> accepted]

\* void PostgresConnection::BeginCopyTo(context, state, format, ...):
\* exec_status is what PQExecute answers, results what PQputCopyData returns
BeginCopyToRun(copy_state, format, setting, exec_status, results) ==
    LET init == Initialize(copy_state, setting)
        s1 == [init.state EXCEPT !.format = format]
        exec == <<PQExecuteCall(CopyQuery(format), exec_status)>>
        copy == CopyData(BinaryHeader, Len(BinaryHeader), results)
    IN IF init.threw THEN MethodResult(init.state, <<>>, "threw", <<>>)
       ELSE IF format \notin {"BINARY", "TEXT"} THEN MethodResult(s1, <<>>, "threw", <<>>)
       ELSE IF exec_status # "PGRES_COPY_IN" THEN MethodResult(s1, exec, "threw", <<>>)
       ELSE IF RequiresHeader(format)
            THEN MethodResult(s1, exec \o copy.trace, copy.outcome,
                              IF copy.outcome = "returned" THEN <<BinaryHeader>> ELSE <<>>)
            ELSE MethodResult(s1, exec, "returned", <<>>)

\* -------------------------------------------------------------- CopyChunk
\* a DataChunk: data is one vector per column, count is size()
ColumnCount(chunk) == Len(chunk.data)

\* the loops of the BINARY branch (lines 286-293): the writer calls made
RECURSIVE BinaryColumnLoop(_, _, _, _)
BinaryColumnLoop(chunk, r, c, ops) ==
    IF c >= ColumnCount(chunk) THEN ops
    ELSE BinaryColumnLoop(chunk, r, c + 1, Append(ops, WriterOp("WriteValue", c, r)))
RECURSIVE BinaryRowLoop(_, _, _)
BinaryRowLoop(chunk, r, ops) ==
    IF r >= chunk.count THEN ops
    ELSE BinaryRowLoop(chunk, r + 1,
            Append(BinaryColumnLoop(chunk, r, 0,
                       Append(ops, WriterOp("BeginRow", ColumnCount(chunk), r))),
                   WriterOp("FinishRow", 0, r)))

\* a column loop that writes the separator after each value
RECURSIVE TextColumnLoopSeparatorAfter(_, _, _, _)
TextColumnLoopSeparatorAfter(chunk, r, c, ops) ==
    IF c >= ColumnCount(chunk) THEN ops
    ELSE TextColumnLoopSeparatorAfter(chunk, r, c + 1,
            Append(Append(ops, WriterOp("WriteValue", c, r)), WriterOp("WriteSeparator", 0, r)))

\* the loops of the TEXT branch (lines 315-325): the writer calls made
RECURSIVE TextColumnLoop(_, _, _, _)
TextColumnLoop(chunk, r, c, ops) ==
    IF c >= ColumnCount(chunk) THEN ops
    ELSE LET o1 == IF c > 0 THEN Append(ops, WriterOp("WriteSeparator", 0, r)) ELSE ops
         IN TextColumnLoop(chunk, r, c + 1, Append(o1, WriterOp("WriteValue", c, r)))
\* a row loop that ends every row but the last of the chunk
RECURSIVE TextRowLoopJoinRows(_, _, _)
TextRowLoopJoinRows(chunk, r, ops) ==
    IF r >= chunk.count THEN ops
    ELSE TextRowLoopJoinRows(chunk, r + 1,
            IF r + 1 < chunk.count
            THEN Append(TextColumnLoop(chunk, r, 0, ops), WriterOp("FinishRow", 0, r))
            ELSE TextColumnLoop(chunk, r, 0, ops))

RECURSIVE TextRowLoop(_, _, _)
TextRowLoop(chunk, r, ops) ==
    IF r >= chunk.count THEN ops
    ELSE TextRowLoop(chunk, r + 1,
            Append(TextColumnLoop(chunk, r, 0, ops), WriterOp("FinishRow", 0, r)))

\* the casted chunk: column_count is ColumnCount(), cardinality is size();
\* within a call data is one sequence of VARCHAR values per column (a call
\* never reads the data an earlier call left)
EmptyVarcharChunk == [column_count |-> 0, cardinality |-> 0]
\* varchar_chunk.Initialize(allocator, varchar_types), one type per column of chunk
VarcharChunkInitialize(chunk) ==
    [column_count |-> ColumnCount(chunk), cardinality |-> 0,
     data |-> [c \in 1..ColumnCount(chunk) |-> <<>>]]
\* varchar_chunk.Reset()
VarcharChunkReset(vc) ==
    [column_count |-> vc.column_count, cardinality |-> 0,
     data |-> [c \in 1..vc.column_count |-> <<>>]]

\* lines 297-306: allocate the casted chunk if it has no columns, else reset it
PrepareVarcharChunk(vc, chunk) ==
    IF vc.column_count = 0
    THEN [chunk |-> VarcharChunkInitialize(chunk), allocated |-> TRUE]
    ELSE [chunk |-> VarcharChunkReset(vc), allocated |-> FALSE]

\* lines 309-311: the columns cast, as far as the casted chunk has columns
CastColumns(vc, chunk) ==
    [vc EXCEPT !.data =
        [c \in 1..vc.column_count |->
            IF c <= ColumnCount(chunk)
            THEN CastToPostgresVarchar(chunk.data[c], chunk.count)
            ELSE vc.data[c]]]

ChunkResult(vc, trace, outcome, accepted, ops, allocated, found, assert_holds) ==
    [varchar_chunk |-> [column_count |-> vc.column_count, cardinality |-> vc.cardinality], trace |-> trace, outcome |-> outcome, accepted |-> accepted,
     writer_ops |-> ops, allocated |-> allocated, found_columns |-> found,
     assert_holds |-> assert_holds]

\* void PostgresConnection::CopyChunk(context, state, chunk, varchar_chunk).
\* build says whether D_ASSERT is compiled in ("debug") or not ("release");
\* an index past the columns of the casted chunk throws.
CopyChunkRun(copy_state, chunk, vc, results, build) ==
    IF copy_state.format = "BINARY"
    THEN LET ops == BinaryRowLoop(chunk, 0, <<>>)
             stream == BinaryStream(chunk.data, ops, 1)
             copy == CopyData(stream, Len(stream), results)
         IN ChunkResult(vc, copy.trace, copy.outcome,
                        IF copy.outcome = "returned" THEN <<stream>> ELSE <<>>,
                        ops, FALSE, vc.column_count, TRUE)
    ELSE IF copy_state.format = "TEXT"
    THEN LET prep == PrepareVarcharChunk(vc, chunk)
             holds == ColumnCount(chunk) = prep.chunk.column_count
             cast == CastColumns(prep.chunk, chunk)
             done == [cast EXCEPT !.cardinality = chunk.count]
             ops == TextRowLoop(chunk, 0, <<>>)
             stream == TextStream(copy_state, done.data, ops, 1)
             copy == CopyData(stream, Len(stream), results)
         IN IF ~holds /\ build = "debug"
            THEN ChunkResult(prep.chunk, <<>>, "threw", <<>>, <<>>,
                             prep.allocated, vc.column_count, holds)
            ELSE IF ColumnCount(chunk) > prep.chunk.column_count
            THEN ChunkResult(cast, <<>>, "threw", <<>>, <<>>,
                             prep.allocated, vc.column_count, holds)
            ELSE ChunkResult(done, copy.trace, copy.outcome,
                             IF copy.outcome = "returned" THEN <<stream>> ELSE <<>>,
                             ops, prep.allocated, vc.column_count, holds)
    ELSE ChunkResult(vc, <<>>, "returned", <<>>, <<>>, FALSE, vc.column_count, TRUE)

\* ----------------------------------------------------------- FinishCopyTo
\* any fetched result taken for a success
CopyFailedNever(result_status) == FALSE

\* line 108: !result || PQresultStatus(result) != PGRES_COMMAND_OK
CopyFailed(result_status) ==
    result_status = "nullptr" \/ result_status # "PGRES_COMMAND_OK"

\* void PostgresConnection::FinishCopyTo(PostgresCopyState &state): end_code
\* is what PQputCopyEnd returns, result_status what PQgetResult answers.
FinishCopyToRun(copy_state, results, end_code, result_status) ==
    LET has_footer == copy_state.format \in {"BINARY", "TEXT"}
        footer == IF copy_state.format = "BINARY" THEN BinaryFooter ELSE TextFooter
        copy == IF has_footer THEN CopyData(footer, Len(footer), results)
                ELSE [trace |-> <<>>, outcome |-> "returned"]
        accepted == IF has_footer /\ copy.outcome = "returned" THEN <<footer>> ELSE <<>>
    IN IF copy.outcome # "returned"
       THEN MethodResult(copy_state, copy.trace, copy.outcome, accepted)
       ELSE IF end_code # 1
       THEN MethodResult(copy_state, Append(copy.trace, PQputCopyEndCall(end_code)),
                         "threw", accepted)
       ELSE MethodResult(copy_state,
                         copy.trace \o <<PQputCopyEndCall(end_code), PQgetResultCall(result_status)>>,
                         IF CopyFailed(result_status) THEN "threw" ELSE "returned",
                         accepted)

\* ------------------------------------------------------- the driver's inputs
Formats == {"AUTO", "BINARY", "TEXT"}
Builds == {"debug", "release"}

\* the values and the column types of the chunks handed to CopyChunk
ChunkValues(type) ==
    CASE type.id = "VARCHAR" -> {NullValue, StringValue(<<CH_x, CH_NUL>>)}
      [] type.id = "INTEGER" -> {IntegerValue(1)}
      [] type.id = "LIST" -> {NestedValue(<<NullValue, StringValue(<<CH_x, CH_COMMA>>)>>)}
TextSchemas == {<<>>, <<VARCHAR>>, <<LIST(VARCHAR), VARCHAR>>}
BinarySchemas == {<<>>, <<VARCHAR>>, <<INTEGER, VARCHAR>>}

RECURSIVE ColumnTuples(_, _, _)
ColumnTuples(schema, n, c) ==
    IF c > Len(schema) THEN {<<>>}
    ELSE {<<[type |-> schema[c], data |-> d]>> \o rest :
             d \in [1..n -> ChunkValues(schema[c])], rest \in ColumnTuples(schema, n, c + 1)}

ChunksOf(schema, n) == {[data |-> cols, count |-> n] : cols \in ColumnTuples(schema, n, 1)}
NoChunk == [data |-> <<>>, count |-> 0]

RECURSIVE TotalRows(_)
TotalRows(chunks) ==
    IF chunks = <<>> THEN 0 ELSE Head(chunks).count + TotalRows(Tail(chunks))

Tagged(op, accepted) == [i \in 1..Len(accepted) |-> [op |-> op, data |-> accepted[i]]]

NoCall ==
    [op |-> "none", outcome |-> "returned", trace |-> <<>>, state_before |-> NewCopyState,
     format |-> "AUTO", setting |-> NoSetting, chunk |-> NoChunk, writer_ops |-> <<>>,
     allocated |-> FALSE, found_columns |-> 0, assert_holds |-> TRUE]

\* ------------------------------------------------------------- the driver
InitDriver ==
    /\ phase = "IDLE"
    /\ state = NewCopyState
    /\ varchar_chunk = EmptyVarcharChunk
    /\ sent = <<>>
    /\ given = <<>>
    /\ call = NoCall

\* sent and given are the history of the open session: they are dropped
\* when the session ends
Keep(history, next_phase) == IF next_phase = "ACTIVE" THEN history ELSE <<>>

\* A call of BeginCopyTo. A call that throws before the server has accepted
\* the COPY command starts no session and may be made again.
BeginCopyTo ==
    /\ phase = "IDLE"
    /\ \E format \in Formats, setting \in Settings, exec_status \in ResultStatuses,
          results \in PutCopyDataResults :
          \E run \in {BeginCopyToRun(state, format, setting, exec_status, results)} :
             LET accepted_copy == \E i \in 1..Len(run.trace) :
                                     run.trace[i].status = "PGRES_COPY_IN"
                 next_phase == IF run.outcome = "returned" THEN "ACTIVE"
                               ELSE IF accepted_copy THEN "FAILED" ELSE "IDLE"
             IN /\ state' = run.state
                /\ sent' = Keep(sent \o Tagged("BeginCopyTo", run.accepted), next_phase)
                /\ call' = [NoCall EXCEPT !.op = "BeginCopyTo", !.outcome = run.outcome,
                                          !.trace = run.trace, !.state_before = state,
                                          !.format = format, !.setting = setting]
                /\ phase' = next_phase
    /\ UNCHANGED <<varchar_chunk, given, castVars>>

\* A call of CopyChunk in a session. The build matters only where the
\* assertion of line 307 fails.
CopyChunk ==
    /\ phase = "ACTIVE"
    /\ Len(given) < MaxChunks
    /\ \E schema \in (IF state.format = "BINARY" THEN BinarySchemas ELSE TextSchemas),
          n \in 0..(MaxRows - TotalRows(given)) :
          \E chunk \in ChunksOf(schema, n), results \in PutCopyDataResults,
             build \in (IF varchar_chunk.column_count \in {0, Len(schema)} \/ state.format # "TEXT"
                        THEN {"release"} ELSE Builds) :
             \E run \in {CopyChunkRun(state, chunk, varchar_chunk, results, build)} :
                LET next_phase == IF run.outcome = "returned" THEN "ACTIVE" ELSE "FAILED"
                IN /\ varchar_chunk' = run.varchar_chunk
                   /\ sent' = Keep(sent \o Tagged("CopyChunk", run.accepted), next_phase)
                   /\ given' = Keep(Append(given, chunk), next_phase)
                   /\ call' = [NoCall EXCEPT !.op = "CopyChunk", !.outcome = run.outcome,
                                             !.trace = run.trace, !.state_before = state,
                                             !.format = state.format, !.chunk = chunk,
                                             !.writer_ops = run.writer_ops,
                                             !.allocated = run.allocated,
                                             !.found_columns = run.found_columns,
                                             !.assert_holds = run.assert_holds]
                   /\ phase' = next_phase
    /\ UNCHANGED <<state, castVars>>

\* The call of FinishCopyTo that ends a session.
FinishCopyTo ==
    /\ phase = "ACTIVE"
    /\ \E results \in PutCopyDataResults, end_code \in PutCopyEndCodes,
          result_status \in ResultStatuses :
          \E run \in {FinishCopyToRun(state, results, end_code, result_status)} :
             /\ call' = [NoCall EXCEPT !.op = "FinishCopyTo", !.outcome = run.outcome,
                                       !.trace = run.trace, !.state_before = state,
                                       !.format = state.format]
             /\ phase' = IF run.outcome = "returned" THEN "CLOSED" ELSE "FAILED"
    /\ sent' = <<>>
    /\ given' = <<>>
    /\ UNCHANGED <<state, varchar_chunk, castVars>>

NoCastInput == [kind |-> "none", text |-> <<>>, vec |-> NoVector]
NoOutput == [text |-> <<>>, data |-> <<>>]

Init == InitDriver /\ castPc = "idle" /\ castIn = NoCastInput /\ castOut = NoOutput
Next == BeginCopyTo \/ CopyChunk \/ FinishCopyTo
Spec == Init /\ [][Next]_vars

\* a call of QuoteAndEscapeIfNeeded on an empty result string
QuoteText ==
    /\ castPc = "input"
    /\ castIn.kind = "text"
    /\ castOut' = [text |-> QuoteAndEscapeIfNeeded(castIn.text, <<>>, Len(castIn.text)),
                   data |-> <<>>]
    /\ castPc' = "done"
    /\ UNCHANGED <<castIn, driverVars>>

\* a call of CastToPostgresVarchar on a whole vector
CastVector ==
    /\ castPc = "input"
    /\ castIn.kind = "vector"
    /\ castOut' = [text |-> <<>>,
                   data |-> CastToPostgresVarchar(castIn.vec, Len(castIn.vec.data))]
    /\ castPc' = "done"
    /\ UNCHANGED <<castIn, driverVars>>

InitCast == InitDriver /\ castPc = "input" /\ CastInputs(castIn, MaxTextLen, MaxVecRows) /\ castOut = NoOutput
NextCast == QuoteText \/ CastVector
SpecCast == InitCast /\ [][NextCast]_vars

InitList == InitDriver /\ castPc = "input" /\ ListInputs(castIn, MaxVecRows) /\ castOut = NoOutput
NextList == CastVector
SpecList == InitList /\ [][NextList]_vars

\* ------------------------------------------------- the quoting grammar
\* What a reader of an array or composite literal does with it: an unquoted
\* token stands for itself; a token wrapped in double quotes loses the
\* wrapping quotes and every backslash-escaped character stands for itself.
RECURSIVE Unescape(_, _)
Unescape(s, i) ==
    IF i > Len(s) THEN <<>>
    ELSE IF s[i] = CH_BACKSLASH /\ i < Len(s)
         THEN <<s[i + 1]>> \o Unescape(s, i + 2)
         ELSE <<s[i]>> \o Unescape(s, i + 1)

IsWrapped(tok) == Len(tok) >= 2 /\ tok[1] = CH_DQUOTE /\ tok[Len(tok)] = CH_DQUOTE

ParseToken(tok) ==
    IF IsWrapped(tok) THEN Unescape(SubSeq(tok, 2, Len(tok) - 1), 1) ELSE tok

\* the segments of the inside of a literal: split at the commas that are
\* outside double quotes
RECURSIVE SplitSegments(_, _, _, _, _)
SplitSegments(s, i, inQuote, cur, acc) ==
    IF i > Len(s) THEN Append(acc, cur)
    ELSE IF inQuote
         THEN IF s[i] = CH_BACKSLASH /\ i < Len(s)
              THEN SplitSegments(s, i + 2, TRUE, cur \o <<s[i], s[i + 1]>>, acc)
              ELSE SplitSegments(s, i + 1, s[i] # CH_DQUOTE, Append(cur, s[i]), acc)
         ELSE IF s[i] = CH_COMMA
              THEN SplitSegments(s, i + 1, FALSE, <<>>, Append(acc, cur))
              ELSE SplitSegments(s, i + 1, s[i] = CH_DQUOTE, Append(cur, s[i]), acc)

Inside(lit) == SubSeq(lit, 2, Len(lit) - 1)
\* the elements of an array literal: {} has none
ArrayElements(lit) ==
    IF Inside(lit) = <<>> THEN <<>> ELSE SplitSegments(Inside(lit), 1, FALSE, <<>>, <<>>)
\* the fields of a composite literal: there is always at least one
CompositeFields(lit) == SplitSegments(Inside(lit), 1, FALSE, <<>>, <<>>)

\* the text the cast gives a single value of a type
CastOne(type, v) == CastToPostgresVarchar([type |-> type, data |-> <<v>>], 1)[1]

\* ------------------------------------------------------------- claims
CastDone(kind) == castPc = "done" /\ castIn.kind = kind

\* C9: parsing QuoteAndEscapeIfNeeded(v) by the quoting grammar gives back v,
\* and the output is unquoted only when v is non-empty, has no leading or
\* trailing whitespace and none of the characters " \ { } ( ) ,
QuoteRoundTrip ==
    CastDone("text") =>
        LET v == castIn.text
            out == castOut.text
        IN /\ ParseToken(out) = v
           /\ ~IsWrapped(out) =>
                 /\ v # <<>>
                 /\ ~isspace(v[1])
                 /\ ~isspace(v[Len(v)])
                 /\ ~Contains(v, {CH_DQUOTE, CH_BACKSLASH, CH_LBRACE, CH_RBRACE,
                                  CH_LPAREN, CH_RPAREN, CH_COMMA})

\* a value with a double quote and a backslash has been quoted
QuoteRoundTripWitness ==
    /\ CastDone("text")
    /\ Contains(castIn.text, {CH_DQUOTE})
    /\ Contains(castIn.text, {CH_BACKSLASH})
    /\ IsWrapped(castOut.text)

IsStructVector == castIn.vec.type.id = "STRUCT"
IsListVector == castIn.vec.type.id = "LIST"

\* C8: a non-null struct row yields ( segments joined by , ), one segment
\* per field in field order; a segment is empty iff its field is null (so
\* never the word NULL), a non-null field's segment is its quoted text; a
\* null row yields a null result.
StructLiteralShape ==
    (CastDone("vector") /\ IsStructVector) =>
        LET vec == castIn.vec
            out == castOut.data
        IN /\ Len(out) = Len(vec.data)
           /\ \A r \in 1..Len(vec.data) :
                IF vec.data[r].null THEN out[r].null
                ELSE LET lit == out[r].str
                         segs == CompositeFields(lit)
                     IN /\ ~out[r].null
                        /\ Len(lit) >= 2
                        /\ lit[1] = CH_LPAREN
                        /\ lit[Len(lit)] = CH_RPAREN
                        /\ Len(segs) = Len(vec.type.children)
                        /\ \A c \in 1..Len(vec.type.children) :
                             LET field == vec.data[r].elems[c]
                             IN /\ (segs[c] = <<>>) <=> field.null
                                /\ field.null => segs[c] # NULL_TOKEN
                                /\ ~field.null =>
                                      ParseToken(segs[c]) =
                                          CastOne(vec.type.children[c], field).str

\* a struct row with a null field and an empty-string field has been cast
StructLiteralWitness ==
    /\ CastDone("vector")
    /\ IsStructVector
    /\ \E r \in 1..Len(castIn.vec.data) :
          /\ ~castIn.vec.data[r].null
          /\ \E c, d \in 1..Len(castIn.vec.type.children) :
                /\ castIn.vec.data[r].elems[c].null
                /\ castIn.vec.data[r].elems[d] = StringValue(<<>>)
                /\ castOut.data[r].str = <<CH_LPAREN, CH_COMMA, CH_DQUOTE, CH_DQUOTE, CH_RPAREN>>

\* C7: in the array literal of a list whose child type is not a list, an
\* element is the bare token NULL if and only if the child element is null.
ListNullTokenOnlyForNull ==
    (CastDone("vector") /\ IsListVector /\ castIn.vec.type.children[1].id # "LIST") =>
        \A r \in 1..Len(castIn.vec.data) :
            ~castIn.vec.data[r].null =>
                LET elems == castIn.vec.data[r].elems
                    toks == ArrayElements(castOut.data[r].str)
                IN /\ Len(toks) = Len(elems)
                   /\ \A i \in 1..Len(elems) : (toks[i] = NULL_TOKEN) <=> elems[i].null

\* ------------------------------------------------------ the driver's claims
Calls(fn) == {i \in 1..Len(call.trace) : call.trace[i].fn = fn}
Puts == Calls("PQputCopyData")
Ends == Calls("PQputCopyEnd")
Gets == Calls("PQgetResult")
Execs == Calls("PQExecute")
IsMax(i, S) == i \in S /\ \A j \in S : j <= i
FooterOf(format) == IF format = "BINARY" THEN BinaryFooter ELSE TextFooter

\* C1: FinishCopyTo sends the footer of the format, then the end-of-copy
\* signal, then fetches the result; it returns only if the signal returned 1
\* and the result exists and is PGRES_COMMAND_OK; a signal other than 1
\* raises and the result is not fetched; a result that is missing or not
\* PGRES_COMMAND_OK raises.
FinishChecksBothSteps ==
    call.op = "FinishCopyTo" =>
        LET t == call.trace
        IN /\ Puts # {}
           /\ \A i \in Puts : t[i].data = FooterOf(call.format)
           /\ Cardinality(Ends) <= 1
           /\ Cardinality(Gets) <= 1
           /\ \A i \in Puts, j \in Ends : i < j
           /\ \A j \in Ends, k \in Gets : j < k
           /\ Ends # {} => \E i \in Puts : t[i].code = 1
           /\ Gets # {} => \E j \in Ends : t[j].code = 1
           /\ \A j \in Ends : t[j].code # 1 => (call.outcome = "threw" /\ Gets = {})
           /\ \A j \in Ends : t[j].code = 1 => Gets # {}
           /\ \A k \in Gets : t[k].status # "PGRES_COMMAND_OK" => call.outcome = "threw"
           /\ call.outcome = "returned" <=>
                 /\ \E j \in Ends : t[j].code = 1
                 /\ \E k \in Gets : t[k].status = "PGRES_COMMAND_OK"

\* the end-of-copy signal succeeded, the fetched result did not, and
\* FinishCopyTo raised
FinishSecondStepFails ==
    /\ call.op = "FinishCopyTo"
    /\ \E j \in Ends : call.trace[j].code = 1
    /\ \E k \in Gets : call.trace[k].status = "PGRES_FATAL_ERROR"
    /\ call.outcome = "threw"

\* C2: BeginCopyTo sends copy data iff the server answered PGRES_COPY_IN and
\* the format is binary; then it is one send, of the binary header alone,
\* and the header is the first copy data of the session. Any other answer
\* raises and sends nothing; a text session starts with nothing sent.
HeaderOnlyForAcceptedBinary ==
    /\ call.op = "BeginCopyTo" =>
        LET t == call.trace
            accepted == \E e \in Execs : t[e].status = "PGRES_COPY_IN"
        IN /\ Puts # {} <=> (accepted /\ call.format = "BINARY")
           /\ \A i \in Puts : t[i].data = BinaryHeader /\ \A e \in Execs : e < i
           /\ \A i \in Puts : t[i].code # 0 => IsMax(i, Puts)
           /\ Cardinality({i \in 1..Len(sent) : sent[i].op = "BeginCopyTo"}) =
                 Cardinality({i \in Puts : t[i].code = 1})
           /\ ~accepted => (call.outcome = "threw" /\ Puts = {} /\ sent = <<>>)
           /\ (call.format = "TEXT" /\ call.outcome = "returned") =>
                 (Puts = {} /\ sent = <<>>)
    /\ phase = "ACTIVE" =>
          /\ state.format = "BINARY" =>
                (sent # <<>> /\ sent[1] = [op |-> "BeginCopyTo", data |-> BinaryHeader])
          /\ \A i \in 2..Len(sent) : sent[i].op # "BeginCopyTo"
          /\ state.format = "TEXT" => \A i \in 1..Len(sent) : sent[i].op # "BeginCopyTo"

\* a binary session has begun, with the header sent, and rows have followed
HeaderBeforeRows ==
    /\ phase = "ACTIVE"
    /\ state.format = "BINARY"
    /\ Len(sent) >= 2
    /\ sent[1].data = BinaryHeader
    /\ sent[2].op = "CopyChunk"
    /\ sent[2].data # <<>>

\* C3: in CopyData an attempt that returns 0 is followed by another with the
\* same bytes and is not reported; CopyData stops at the first code that is
\* not 0, raises iff it is -1 and returns otherwise; the attempts are the
\* zero results plus one; CopyData completes once a code is not 0.
CopyDataRetriesOnZero ==
    LET t == call.trace
    IN /\ \A i \in Puts :
            /\ (t[i].code = 0 /\ i < Len(t)) =>
                  (i + 1 \in Puts /\ t[i + 1].data = t[i].data)
            /\ (t[i].code = 0 /\ i = Len(t)) => call.outcome = "retrying"
            /\ t[i].code # 0 => IsMax(i, Puts)
            /\ t[i].code = -1 => (i = Len(t) /\ call.outcome = "threw")
            /\ (t[i].code = 1 /\ i = Len(t)) => call.outcome = "returned"
            /\ (t[i].code = 1 /\ call.op = "FinishCopyTo") => i + 1 \in Ends
       /\ (\E i \in Puts : t[i].code # 0) =>
             Cardinality(Puts) = Cardinality({i \in Puts : t[i].code = 0}) + 1
       /\ call.outcome = "retrying" =>
             (Cardinality(Puts) = MaxAttempts /\ \A i \in Puts : t[i].code = 0)
       /\ (call.op = "CopyChunk" /\ Puts # {}) =>
             (call.outcome = "threw" <=> \E i \in Puts : t[i].code = -1)

\* a CopyChunk whose first attempt returned 0 and whose second returned 1
RetriedSendSucceeds ==
    /\ call.op = "CopyChunk"
    /\ Len(call.trace) = 2
    /\ call.trace[1].code = 0
    /\ call.trace[2].code = 1
    /\ call.trace[1].data # <<>>
    /\ call.outcome = "returned"

HasNul(setting) == setting.found /\ ~setting.null /\ Contains(setting.str, {CH_NUL})

\* C4: a pg_null_byte_replacement containing a NUL makes BeginCopyTo raise
\* before the COPY command is submitted and before any copy data is sent,
\* and leaves the state's replacement flag and string as they were.
NulReplacementRejectedEagerly ==
    (call.op = "BeginCopyTo" /\ HasNul(call.setting)) =>
        /\ call.outcome = "threw"
        /\ call.trace = <<>>
        /\ state.has_null_byte_replacement = call.state_before.has_null_byte_replacement
        /\ state.null_byte_replacement = call.state_before.null_byte_replacement

\* the rejected setting came after one that had set a replacement
NulReplacementRejectedAfterValid ==
    /\ call.op = "BeginCopyTo"
    /\ HasNul(call.setting)
    /\ call.state_before.has_null_byte_replacement
    /\ state.null_byte_replacement = <<CH_BACKSLASH, CH_0>>
    /\ call.outcome = "threw"

\* the chunk holding the rows of the chunks, in order (all of one schema)
RECURSIVE ConcatColumn(_, _)
ConcatColumn(chunks, c) ==
    IF chunks = <<>> THEN <<>>
    ELSE Head(chunks).data[c].data \o ConcatColumn(Tail(chunks), c)
SingleChunk(chunks) ==
    [data |-> [c \in 1..ColumnCount(chunks[1]) |->
                  [type |-> chunks[1].data[c].type, data |-> ConcatColumn(chunks, c)]],
     count |-> TotalRows(chunks)]
SameColumns(chunks) ==
    \A i \in 1..Len(chunks) :
        /\ ColumnCount(chunks[i]) = ColumnCount(chunks[1])
        /\ \A c \in 1..ColumnCount(chunks[1]) : chunks[i].data[c].type = chunks[1].data[c].type
RECURSIVE SentByCopyChunk(_)
SentByCopyChunk(i) ==
    IF i > Len(sent) THEN <<>>
    ELSE (IF sent[i].op = "CopyChunk" THEN sent[i].data ELSE <<>>) \o SentByCopyChunk(i + 1)

\* C5: the bytes the CopyChunk calls of a session sent, concatenated, are the
\* bytes one CopyChunk call sends for all their rows (chunks of one column
\* count; both formats).
BatchesConcatenate ==
    (phase = "ACTIVE" /\ given # <<>> /\ SameColumns(given)) =>
        SentByCopyChunk(1) =
            CopyChunkRun(state, SingleChunk(given), EmptyVarcharChunk, <<1>>, "release").accepted[1]

\* two text batches of one row each, of two columns, have been sent
TwoBatchesSent ==
    /\ phase = "ACTIVE"
    /\ state.format = "TEXT"
    /\ Len(given) = 2
    /\ SameColumns(given)
    /\ ColumnCount(given[1]) = 2
    /\ given[1].count = 1
    /\ given[2].count = 1
    /\ SentByCopyChunk(1) # <<>>

\* the ops of row r of a text chunk of n columns: values in column order, a
\* separator between consecutive values, then FinishRow
WriterRan == call.op = "CopyChunk" /\ call.format = "TEXT" /\ call.trace # <<>>

\* C6: a text CopyChunk issues, for every row in row order, WriteValue for
\* columns 0..n-1 in order with exactly one WriteSeparator between
\* consecutive values (none before the first, none after the last), then
\* one FinishRow; the batch is then transmitted.
TextWriterCallOrder ==
    WriterRan =>
        LET n == ColumnCount(call.chunk)
            per_row == IF n = 0 THEN 1 ELSE 2 * n
            ops == call.writer_ops
        IN /\ Len(ops) = call.chunk.count * per_row
           /\ \A r \in 0..(call.chunk.count - 1) :
                LET base == r * per_row
                IN /\ \A c \in 0..(n - 1) :
                        ops[base + 2 * c + 1] = WriterOp("WriteValue", c, r)
                   /\ \A c \in 1..(n - 1) :
                        ops[base + 2 * c] = WriterOp("WriteSeparator", 0, r)
                   /\ ops[base + per_row] = WriterOp("FinishRow", 0, r)
                   /\ Cardinality({i \in (base + 1)..(base + per_row) :
                                      ops[i].fn = "WriteSeparator"}) = (IF n = 0 THEN 0 ELSE n - 1)
           /\ Puts # {}
           /\ \A i \in Puts : call.trace[i].data = TextStream(call.state_before,
                                  CastColumns(VarcharChunkInitialize(call.chunk), call.chunk).data,
                                  ops, 1)

\* a text chunk of two rows and two columns has been written
TwoByTwoWritten ==
    /\ WriterRan
    /\ ColumnCount(call.chunk) = 2
    /\ call.chunk.count = 2
    /\ call.outcome = "returned"

\* C10: the casted chunk is allocated only by a call that finds it with no
\* columns and is reset by every other call; where the columns are cast its
\* column count is the input's (the assertion of line 307 holds on every
\* call); after each call its cardinality is the input's row count.
CastedChunkMatchesInput ==
    (call.op = "CopyChunk" /\ call.format = "TEXT") =>
        /\ call.allocated <=> call.found_columns = 0
        /\ call.assert_holds
        /\ varchar_chunk.cardinality = call.chunk.count

====
